---- MODULE Spec2Model ----
(***************************************************************************)
(* A model of src/app.py, the Streamlit script of the FDA agent tool.      *)
(*                                                                         *)
(* Streamlit executes the whole script top to bottom once per operator     *)
(* interaction.  The state of the model is the widget state the session    *)
(* keeps between two executions, plus the values the last execution left   *)
(* in the script's variables.  Every action is one operator interaction    *)
(* followed by the complete execution of the script it triggers.           *)
(*                                                                         *)
(* Text is modelled as a sequence of one-character strings where the code  *)
(* parses it (the page-selection expression) and as a sequence of chunks   *)
(* where the code only concatenates it (summary_text).                     *)
(***************************************************************************)
EXTENDS Integers, Sequences, FiniteSets, TLC

\* ------------------------------------------------------------------ bounds
\* Backend invocations explored per session.
MaxCalls == 2
\* Files the operator puts into the uploader at once.
MaxFiles == 2
\* Pages of the well-formed PDF of the document pool.
NumPages == 3
\* Length of the page expressions enumerated character by character.
MaxExprLen == 3

\* ------------------------------------------------------- program constants
\* Temperatures are counted in tenths (the slider's step is 0.1).
TempMin == 0
TempMax == 10
TempFallback == 3
TokensMin == 512
TokensMax == 8192
TokensFallback == 4096

\* ------------------------------------------------------- Python str helpers
\* str.lower() on the characters of the alphabet used here.
LowerChar(c) ==
    CASE c = "A" -> "a"
      [] c = "L" -> "l"
      [] OTHER -> c

Lower(s) ==
    [i \in 1..Len(s) |-> LowerChar(s[i])]

\* The expression typed by default into the page field (line 119).
AllLiteral ==
    <<"a", "l", "l">>

IsSpace(c) ==
    c = " "

RECURSIVE LStrip(_)
LStrip(s) ==
    IF s # <<>> /\ IsSpace(Head(s)) THEN LStrip(Tail(s)) ELSE s

RECURSIVE RStrip(_)
RStrip(s) ==
    IF s # <<>> /\ IsSpace(s[Len(s)]) THEN RStrip(SubSeq(s, 1, Len(s) - 1)) ELSE s

\* str.strip()
Strip(s) ==
    RStrip(LStrip(s))

\* c in s
Contains(s, c) ==
    \E i \in 1..Len(s) : s[i] = c

\* s.split(c): always at least one field, empty fields kept.
RECURSIVE Split(_, _)
Split(s, c) ==
    IF ~Contains(s, c)
    THEN <<s>>
    ELSE LET k == CHOOSE i \in 1..Len(s) :
                      s[i] = c /\ \A j \in 1..(i - 1) : s[j] # c
         IN  <<SubSeq(s, 1, k - 1)>> \o Split(SubSeq(s, k + 1, Len(s)), c)

IsDigit(c) ==
    c \in {"0", "1", "2", "3", "4", "5", "6", "7", "8", "9"}

DigitVal(c) ==
    CASE c = "0" -> 0 [] c = "1" -> 1 [] c = "2" -> 2 [] c = "3" -> 3
      [] c = "4" -> 4 [] c = "5" -> 5 [] c = "6" -> 6 [] c = "7" -> 7
      [] c = "8" -> 8 [] c = "9" -> 9

RECURSIVE DigitsVal(_)
DigitsVal(s) ==
    IF s = <<>> THEN 0
    ELSE 10 * DigitsVal(SubSeq(s, 1, Len(s) - 1)) + DigitVal(s[Len(s)])

\* int(s) for a str without sign: surrounding blanks are accepted, anything
\* but a non-empty run of digits raises ValueError.
IntOfStripped(t) ==
    IF t # <<>> /\ \A i \in 1..Len(t) : IsDigit(t[i])
    THEN [ok |-> TRUE, v |-> DigitsVal(t)]
    ELSE [ok |-> FALSE, v |-> 0]

ParseInt(s) ==
    IntOfStripped(Strip(s))

\* list(range(a, b))
Range(a, b) ==
    [i \in 1..(IF b > a THEN b - a ELSE 0) |-> a + i - 1]

Min(a, b) ==
    IF a < b THEN a ELSE b

\* -------------------------------------------------- page selection parsing
ValueError ==
    [exc |-> "ValueError", pages |-> <<>>]

Pages(pages) ==
    [exc |-> "none", pages |-> pages]

\* Line 132, with start and end the results of int().
RangePart(start, end, total_pages) ==
    IF start.ok /\ end.ok
    THEN Pages(Range(start.v - 1, Min(end.v, total_pages)))
    ELSE ValueError

\* Line 131: start, end = map(int, part.split('-')).
RangeFields(f, total_pages) ==
    IF Len(f) = 2
    THEN RangePart(ParseInt(f[1]), ParseInt(f[2]), total_pages)
    ELSE ValueError

\* Lines 134-136, with page the result of int(part).
SinglePart(page, total_pages) ==
    IF ~page.ok THEN ValueError
    ELSE IF 0 <= page.v - 1 /\ page.v - 1 < total_pages
    THEN Pages(<<page.v - 1>>)
    ELSE Pages(<<>>)

\* Lines 130-136: one stripped part of the expression.
StrippedPart(part, total_pages) ==
    IF Contains(part, "-")
    THEN RangeFields(Split(part, "-"), total_pages)
    ELSE SinglePart(ParseInt(part), total_pages)

\* Lines 129-136: the pages one comma-separated part adds, or the
\* ValueError raised by int() or by unpacking start, end.
ParsePart(raw, total_pages) ==
    StrippedPart(Strip(raw), total_pages)

\* The loop of lines 128-136 over the parts, left to right, stopping at the
\* first part that raises; acc is selected_pages so far.
RECURSIVE ParseParts(_, _, _)
RECURSIVE ParseNext(_, _, _, _)
ParseNext(r, rest, total_pages, acc) ==
    IF r.exc # "none" THEN [exc |-> r.exc, pages |-> acc]
    ELSE ParseParts(rest, total_pages, acc \o r.pages)

ParseParts(parts, total_pages, acc) ==
    IF parts = <<>> THEN Pages(acc)
    ELSE ParseNext(ParsePart(Head(parts), total_pages), Tail(parts),
                   total_pages, acc)

\* Lines 124-136: the whole expression.
ParsePageRange(page_range, total_pages) ==
    IF Lower(page_range) = AllLiteral
    THEN Pages(Range(0, total_pages))
    ELSE ParseParts(Split(page_range, ","), total_pages, <<>>)

\* ------------------------------------------------------------ documents
\* The pool the operator uploads from: a well-formed PDF, a file with the
\* PDF MIME type that PdfReader cannot open, a UTF-8 text file and a text
\* file whose bytes are not UTF-8.
Docs ==
    {"sub.pdf", "scan.pdf", "notes.txt", "bad.txt"}

\* uploaded_file.type == "application/pdf" (line 108)
IsPdf(d) ==
    d \in {"sub.pdf", "scan.pdf"}

\* PdfReader(uploaded_file) succeeds (line 109)
PdfOpens(d) ==
    d = "sub.pdf"

\* len(reader.pages) (line 110)
TotalPages(d) ==
    IF d = "sub.pdf" THEN NumPages ELSE 0

\* uploaded_file.read().decode("utf-8") succeeds (line 148)
Decodes(d) ==
    d = "notes.txt"

\* Pieces of summary_text.  hdr: a provenance line; text: extracted or
\* decoded content (n is the zero-based page, 0 for a text file); paste:
\* the pasted block.
PageHeader(page_num) ==
    [k |-> "hdr", doc |-> "Page", n |-> page_num + 1]

PageText(d, i) ==
    [k |-> "text", doc |-> d, n |-> i]

FileHeader(d) ==
    [k |-> "hdr", doc |-> d, n |-> 0]

FileText(d) ==
    [k |-> "text", doc |-> d, n |-> 0]

PastedChunk ==
    [k |-> "paste", doc |-> "", n |-> 0]

\* reader.pages[page_num]: the page list accepts a negative index and counts
\* it from the end; an index outside [-n, n) raises IndexError.
PageIndex(page_num, total_pages) ==
    IF page_num < 0 THEN total_pages + page_num ELSE page_num

PageIndexOk(page_num, total_pages) ==
    0 <= PageIndex(page_num, total_pages)
        /\ PageIndex(page_num, total_pages) < total_pages

\* Lines 141-143: the extraction loop over selected_pages, appending to
\* summary_text; stops at the first page access that raises.
RECURSIVE ExtractPages(_, _, _, _)
ExtractPages(d, pages, total_pages, text) ==
    IF pages = <<>> THEN [exc |-> "none", text |-> text]
    ELSE IF ~PageIndexOk(Head(pages), total_pages)
         THEN [exc |-> "IndexError", text |-> text \o <<PageHeader(Head(pages))>>]
         ELSE ExtractPages(d, Tail(pages), total_pages,
                  text \o <<PageHeader(Head(pages)),
                            PageText(d, PageIndex(Head(pages), total_pages))>>)

\* Widget keys of the per-file widgets (lines 114 and 120).
SelectKey(d) ==
    <<"select", d>>

PagesKey(d) ==
    <<"pages", d>>

\* Lines 114-138: the check box, the page field and selected_pages.
SelectPages(d, use_sel, page_range) ==
    IF use_sel[d] THEN ParsePageRange(page_range[d], TotalPages(d))
    ELSE Pages(Range(0, TotalPages(d)))

PdfWidgets(d, use_sel) ==
    {SelectKey(d)} \cup (IF use_sel[d] THEN {PagesKey(d)} ELSE {})

\* Lines 141-145, with x the outcome of the extraction loop.
Extracted(d, a, x) ==
    IF x.exc # "none"
    THEN [a EXCEPT !.exc = x.exc, !.at = "page_selection",
                   !.summary_text = x.text]
    ELSE [a EXCEPT !.summary_text = x.text,
                   !.notices = @ \cup {<<"success", d>>}]

\* Lines 116-145, with r the outcome of the page selection.
Selected(d, a, r) ==
    IF r.exc # "none"
    THEN [a EXCEPT !.exc = r.exc, !.at = "page_selection",
                   !.selected_pages = r.pages]
    ELSE Extracted(d, [a EXCEPT !.selected_pages = r.pages],
                   ExtractPages(d, r.pages, TotalPages(d), a.summary_text))

\* Lines 108-145: one PDF of the batch.  a is the aggregation so far.
ProcessPdf(d, a, use_sel, page_range) ==
    IF ~PdfOpens(d)
    THEN [a EXCEPT !.exc = "PdfReadError", !.at = "document"]
    ELSE Selected(d, [a EXCEPT !.shown = @ \cup PdfWidgets(d, use_sel)],
                  SelectPages(d, use_sel, page_range))

\* Lines 147-150: one text or markdown file of the batch.
ProcessText(d, a) ==
    IF ~Decodes(d)
    THEN [a EXCEPT !.exc = "UnicodeDecodeError", !.at = "document"]
    ELSE [a EXCEPT !.summary_text = @ \o <<FileHeader(d), FileText(d)>>,
                   !.notices = @ \cup {<<"success", d>>}]

\* Lines 104-150: the loop over uploaded_files, in upload order.  An
\* exception leaves the loop and the script.
RECURSIVE ProcessFiles(_, _, _, _)
ProcessFiles(files, a, use_sel, page_range) ==
    IF files = <<>> \/ a.exc # "none" THEN a
    ELSE ProcessFiles(Tail(files),
                      IF IsPdf(Head(files))
                      THEN ProcessPdf(Head(files), a, use_sel, page_range)
                      ELSE ProcessText(Head(files), a),
                      use_sel, page_range)

\* The script's variables at line 96.  selected_pages = None (line 94) is
\* modelled as the empty list: the code only iterates a value it assigned.
NoInput(shown) ==
    [exc |-> "none", at |-> "", summary_text |-> <<>>,
     selected_pages |-> <<>>, notices |-> {}, shown |-> shown]

\* Lines 96-162: the input section.  w is the widget state of the session.
Aggregate(w) ==
    IF w.input_method = "Upload Files"
    THEN ProcessFiles(w.uploaded_files, NoInput({<<"uploader", "">>}),
                      w.use_page_selection, w.page_range)
    ELSE IF w.pasted_text
         THEN [NoInput({<<"text_area", "">>}) EXCEPT
                  !.summary_text = <<PastedChunk>>,
                  !.notices = {<<"success", "pasted">>}]
         ELSE NoInput({<<"text_area", "">>})

\* -------------------------------------------------------- configuration
\* What the session finds as agents.yaml:
\*   absent      the file does not exist
\*   unparsable  yaml.safe_load raises (e.g. a tab used for indentation)
\*   empty       the file is empty: yaml.safe_load returns None
\*   list        agents: [Evidence Extractor, Risk Assessor]
\*   scalar      agents: none configured
\*   text_agent  agents: {Reviewer: checks the labelling}
\*   hot         agents: {Hot: {default_prompt: .., temperature: 1.5,
\*                              max_tokens: 4096}}
\*   short       agents: {Short: {default_prompt: .., temperature: 0.3,
\*                                max_tokens: 100}}
\*   bare        agents: {Bare: {}}
ConfigSources ==
    {"absent", "unparsable", "empty", "list", "scalar", "text_agent",
     "hot", "short", "bare"}

\* An entry of the agents mapping; absent keys have has_* = FALSE.
Agent(name, temp, tokens) ==
    [name |-> name, is_map |-> TRUE,
     has_prompt |-> TRUE, default_prompt |-> <<"default", name>>,
     has_temperature |-> TRUE, temperature |-> temp,
     has_max_tokens |-> TRUE, max_tokens |-> tokens]

\* The built-in mapping returned when agents.yaml is absent (lines 38-65).
BuiltinAgents ==
    <<Agent("Evidence Extractor", 3, 4096),
      Agent("Compliance Checker", 2, 4096),
      Agent("Comparator Analyzer", 4, 4096),
      Agent("Risk Assessor", 3, 4096)>>

\* The fallback of lines 179-184 when the mapping is empty.
DefaultAgent ==
    Agent("Default Agent", 3, 4096)

\* The value of agents_config after line 84.  doc is the type of the loaded
\* document, agents the type of its 'agents' value ("missing" when the key
\* is absent), entries the items of a mapping in file order.
Config(doc, agents, entries, diag) ==
    [doc |-> doc, agents |-> agents, entries |-> entries, error |-> diag]

\* load_agents_config (lines 29-68).  The except clause covers the read and
\* the YAML parse only; whatever safe_load returns is returned unchecked.
load_agents_config(source) ==
    CASE source = "absent"     -> Config("map", "map", BuiltinAgents, FALSE)
      [] source = "unparsable" -> Config("map", "map", <<>>, TRUE)
      [] source = "empty"      -> Config("none", "missing", <<>>, FALSE)
      [] source = "list"       -> Config("map", "list", <<>>, FALSE)
      [] source = "scalar"     -> Config("map", "str", <<>>, FALSE)
      [] source = "text_agent" ->
            Config("map", "map",
                   <<[Agent("Reviewer", 0, 0) EXCEPT !.is_map = FALSE]>>, FALSE)
      [] source = "hot"        ->
            Config("map", "map", <<Agent("Hot", 15, 4096)>>, FALSE)
      [] source = "short"      ->
            Config("map", "map", <<Agent("Short", 3, 100)>>, FALSE)
      [] source = "bare"       ->
            Config("map", "map",
                   <<[Agent("Bare", 0, 0) EXCEPT !.has_prompt = FALSE,
                          !.has_temperature = FALSE,
                          !.has_max_tokens = FALSE]>>, FALSE)

\* bool(agents) at line 171: a non-empty mapping, list or string is true.
Truthy(cfg) ==
    \/ cfg.agents = "map" /\ cfg.entries # <<>>
    \/ cfg.agents \in {"list", "str"}

\* agent_config.get('temperature', 0.3) etc. (lines 194, 202, 209)
ConfiguredTemperature(agent_config) ==
    IF agent_config.has_temperature THEN agent_config.temperature
    ELSE TempFallback

ConfiguredMaxTokens(agent_config) ==
    IF agent_config.has_max_tokens THEN agent_config.max_tokens
    ELSE TokensFallback

ConfiguredPrompt(agent_config) ==
    IF agent_config.has_prompt THEN agent_config.default_prompt
    ELSE <<>>

\* st.slider / st.number_input called with min_value, max_value and value
\* (lines 190-204): a value outside [min_value, max_value] makes the call
\* raise instead of drawing the widget.
WidgetAccepts(lo, hi, value) ==
    lo <= value /\ value <= hi

\* The value a widget returns: what the session holds for it when the
\* widget was drawn before with the same default, else the default.
WidgetValue(held, dflt) ==
    IF held.live /\ held.dflt = dflt THEN held.val ELSE dflt

Held(dflt, val) ==
    [live |-> TRUE, dflt |-> dflt, val |-> val]

NotHeld ==
    [live |-> FALSE, dflt |-> <<>>, val |-> <<>>]

NotHeldNum ==
    [live |-> FALSE, dflt |-> 0, val |-> 0]

\* ------------------------------------------------------- agent section
\* Line 172-173: the select box over list(agents.keys()).
AgentNames(cfg) ==
    {cfg.entries[i].name : i \in 1..Len(cfg.entries)}

SelectedName(cfg, held) ==
    IF held.live /\ held.val \in AgentNames(cfg) THEN held.val
    ELSE cfg.entries[1].name

\* Line 175: agents[selected_agent]
Entry(cfg, name) ==
    CHOOSE e \in {cfg.entries[i] : i \in 1..Len(cfg.entries)} : e.name = name

\* Lines 175-176: agent_config.get needs a mapping.
Picked(r, entry) ==
    IF ~entry.is_map
    THEN [r EXCEPT !.exc = "AttributeError", !.at = "agent_select",
                   !.selected_agent = entry.name,
                   !.shown = @ \cup {<<"selectbox", "">>}]
    ELSE [r EXCEPT !.selected_agent = entry.name, !.agent_config = entry,
                   !.shown = @ \cup {<<"selectbox", "">>}]

\* Lines 171-184: the agent the operator works with.  held is what the
\* session holds for the select box.
SelectAgent(cfg, held, r) ==
    IF ~Truthy(cfg)
    THEN [r EXCEPT !.selected_agent = DefaultAgent.name,
                   !.agent_config = DefaultAgent,
                   !.notices = @ \cup {<<"warning", "No agents found">>}]
    ELSE IF cfg.agents # "map"
    THEN [r EXCEPT !.exc = "AttributeError", !.at = "agent_select"]
    ELSE Picked(r, Entry(cfg, SelectedName(cfg, held)))

\* Lines 190-204: the two parameter widgets, drawn with the configured
\* values t and m of the agent as their defaults.
Parameters(w, r, t, m) ==
    IF ~WidgetAccepts(TempMin, TempMax, t)
    THEN [r EXCEPT !.exc = "StreamlitAPIException", !.at = "agent_params"]
    ELSE IF ~WidgetAccepts(TokensMin, TokensMax, m)
    THEN [r EXCEPT !.exc = "StreamlitAPIException", !.at = "agent_params",
                   !.temperature = WidgetValue(w.temperature, t),
                   !.temperature_default = t,
                   !.shown = @ \cup {<<"slider", "">>}]
    ELSE [r EXCEPT !.temperature = WidgetValue(w.temperature, t),
                   !.temperature_default = t,
                   !.max_tokens = WidgetValue(w.max_tokens, m),
                   !.max_tokens_default = m,
                   !.shown = @ \cup {<<"slider", "">>, <<"number_input", "">>}]

AgentParameters(w, r) ==
    IF r.exc # "none" THEN r
    ELSE Parameters(w, r, ConfiguredTemperature(r.agent_config),
                    ConfiguredMaxTokens(r.agent_config))

\* Lines 209-218: the instruction field, pre-filled with default_prompt d,
\* and the run button.
Prompt(w, r, d) ==
    [r EXCEPT !.user_prompt = WidgetValue(w.prompt, d),
              !.prompt_default = d,
              !.shown = @ \cup {<<"prompt", "">>, <<"run", "">>}]

PromptField(w, r) ==
    IF r.exc # "none" THEN r
    ELSE Prompt(w, r, ConfiguredPrompt(r.agent_config))

\* --------------------------------------------------------------- the run
\* A backend call that is repeated once when it fails.
generate_content_retried(outcome) ==
    [invocations |-> IF outcome = "ok" THEN 1 ELSE 2, ok |-> outcome = "ok"]

\* model.generate_content(full_prompt) (line 244): one request; outcome is
\* what the backend does with it.
generate_content(outcome) ==
    [invocations |-> 1, ok |-> outcome = "ok"]

\* Lines 222-241: the generation parameters and the parts of full_prompt.
Request(r) ==
    [agent |-> r.selected_agent, summary_text |-> r.summary_text,
     task |-> r.user_prompt, temperature |-> r.temperature,
     max_output_tokens |-> r.max_tokens]

\* A run block without the except clause: the failure ends the script.
Respond_uncaught(r, g) ==
    IF g.ok
    THEN [r EXCEPT !.invocations = g.invocations, !.request = Request(r),
                   !.status = "RENDERED",
                   !.shown = @ \cup {<<"download", "download_report">>,
                                     <<"download", "download_full">>}]
    ELSE [r EXCEPT !.invocations = g.invocations, !.request = Request(r),
                   !.status = "FAILED",
                   !.exc = "Exception", !.at = "run"]

\* Lines 246-290: the result and the two download buttons, or the except
\* clause, which reports the error and lets the script go on.
Respond(r, g) ==
    IF g.ok
    THEN [r EXCEPT !.invocations = g.invocations, !.request = Request(r),
                   !.status = "RENDERED",
                   !.shown = @ \cup {<<"download", "download_report">>,
                                     <<"download", "download_full">>}]
    ELSE [r EXCEPT !.invocations = g.invocations, !.request = Request(r),
                   !.status = "FAILED",
                   !.notices = @ \cup {<<"error", "Error during processing">>}]

\* Lines 220-290: the try block.
TryRun(r, outcome) ==
    Respond(r, generate_content(outcome))

\* Line 218: st.button(..) and user_prompt.
RunBlock(r, clicked, outcome) ==
    IF r.exc = "none" /\ clicked /\ r.user_prompt # <<>>
    THEN TryRun(r, outcome) ELSE r

\* ------------------------------------------------------------ the script
NoRequest ==
    [agent |-> "", summary_text |-> <<>>, task |-> <<>>, temperature |-> 0,
     max_output_tokens |-> 0]

\* The script's variables before line 71.
Blank ==
    [exc |-> "none", at |-> "", GEMINI_API_KEY |-> FALSE,
     summary_text |-> <<>>, selected_pages |-> <<>>, notices |-> {},
     shown |-> {}, selected_agent |-> "", agent_config |-> DefaultAgent,
     temperature |-> 0, temperature_default |-> 0,
     max_tokens |-> 0, max_tokens_default |-> 0,
     user_prompt |-> <<>>, prompt_default |-> <<>>,
     invocations |-> 0, request |-> NoRequest, status |-> "IDLE"]

\* Lines 71-78: the credential.  The absence of a key is answered with a
\* warning and the script goes on.
Credential(env, w, r) ==
    [r EXCEPT !.GEMINI_API_KEY = env \/ w.api_key_input,
              !.shown = @ \cup (IF env THEN {} ELSE {<<"api_key", "">>}),
              !.notices = @ \cup
                  (IF env \/ w.api_key_input THEN {}
                   ELSE {<<"warning", "Please enter your Gemini API Key">>})]

\* Lines 66-68 and 84-85: the diagnostic of the except clause, and
\* agents_config.get('agents', {}), which needs a mapping.
LoadAgents(cfg, r) ==
    [r EXCEPT !.exc = IF cfg.doc # "map" THEN "AttributeError" ELSE "none",
              !.at = IF cfg.doc # "map" THEN "config" ELSE "",
              !.notices = @ \cup (IF cfg.error
                                  THEN {<<"error", "Error loading agents.yaml">>}
                                  ELSE {})]

\* Lines 88-162: the radio button and the input section, a its outcome.
Input(r, a) ==
    [r EXCEPT !.exc = a.exc, !.at = a.at,
              !.summary_text = a.summary_text,
              !.selected_pages = a.selected_pages,
              !.notices = @ \cup a.notices,
              !.shown = @ \cup a.shown \cup {<<"radio", "">>}]

InputSection(w, r) ==
    IF r.exc # "none" THEN r ELSE Input(r, Aggregate(w))

\* Lines 165-290: drawn only for a non-empty summary_text; nothing is
\* shown in its place otherwise.
AgentSection(w, cfg, r, clicked, outcome) ==
    IF r.exc # "none" \/ r.summary_text = <<>> THEN r
    ELSE RunBlock(PromptField(w, AgentParameters(w, SelectAgent(cfg, w.agent, r))),
                  clicked, outcome)

\* Lines 71-290 for the loaded configuration cfg.
Sections(env, cfg, w, clicked, outcome) ==
    AgentSection(w, cfg,
                 InputSection(w, LoadAgents(cfg, Credential(env, w, Blank))),
                 clicked, outcome)

\* One execution of app.py: an uncaught exception ends it where it is
\* raised; Streamlit shows the traceback and keeps the session.
Script(env, source, w, clicked, outcome) ==
    Sections(env, load_agents_config(source), w, clicked, outcome)

\* What the session holds for the widgets after an execution: a widget the
\* execution drew keeps its value, the value of a widget it did not draw is
\* forgotten (the widget starts from its default when it is drawn again).
Keep(r, key, fresh, initial) ==
    IF key \in r.shown THEN fresh ELSE initial

WidgetsAfter(w, r) ==
    [api_key_input |-> Keep(r, <<"api_key", "">>, w.api_key_input, FALSE),
     input_method |-> w.input_method,
     uploaded_files |-> Keep(r, <<"uploader", "">>, w.uploaded_files, <<>>),
     use_page_selection |->
        [d \in Docs |-> Keep(r, SelectKey(d), w.use_page_selection[d], FALSE)],
     page_range |->
        [d \in Docs |-> Keep(r, PagesKey(d), w.page_range[d], AllLiteral)],
     pasted_text |-> Keep(r, <<"text_area", "">>, w.pasted_text, FALSE),
     agent |-> Keep(r, <<"selectbox", "">>,
                    [live |-> TRUE, val |-> r.selected_agent],
                    [live |-> FALSE, val |-> ""]),
     temperature |-> Keep(r, <<"slider", "">>,
                          Held(r.temperature_default, r.temperature), NotHeldNum),
     max_tokens |-> Keep(r, <<"number_input", "">>,
                         Held(r.max_tokens_default, r.max_tokens), NotHeldNum),
     prompt |-> Keep(r, <<"prompt", "">>,
                     Held(r.prompt_default, r.user_prompt), NotHeld)]

InitialWidgets ==
    [api_key_input |-> FALSE, input_method |-> "Upload Files",
     uploaded_files |-> <<>>,
     use_page_selection |-> [d \in Docs |-> FALSE],
     page_range |-> [d \in Docs |-> AllLiteral],
     pasted_text |-> FALSE,
     agent |-> [live |-> FALSE, val |-> ""],
     temperature |-> NotHeldNum, max_tokens |-> NotHeldNum, prompt |-> NotHeld]

\* ----------------------------------------------------- operator's choices
\* Expressions the operator types into the page field: every string of at
\* most MaxExprLen characters of PageAlphabet, and the expressions the
\* page field's label and the specification name.
PageAlphabet ==
    {"0", "1", "2", "4", ",", "-", " "}

NamedExprs ==
    {AllLiteral,
     <<"A", "L", "L">>,
     <<"x">>,
     <<"1", ",", "a", "l", "l">>,
     <<"1", ",", "3", ",", "5", "-", "1", "0">>,
     <<"2", ",", "4", "-", "6">>,
     <<"8", "-", "2", "0">>}

PageExprs ==
    NamedExprs \cup UNION {[1..k -> PageAlphabet] : k \in 0..MaxExprLen}

\* The expressions tried in the sessions that also exercise the agents.
SessionExprs ==
    {AllLiteral, <<"2", ",", "1">>, <<"0", "-", "2">>, <<"9">>, <<"x">>}

\* Positions the operator drags the slider to, values typed into the
\* number field, and instruction texts typed over the default.
TemperatureChoices ==
    {0, 15}

MaxTokensChoices ==
    {512, 9000}

PromptChoices ==
    {<<>>, <<"edited">>}

Outcomes ==
    {"ok", "fail"}

\* -------------------------------------------------------------------- state
VARIABLES
    env_key,        \* os.getenv("GEMINI_API_KEY") is set
    agents_yaml,    \* what the session finds as agents.yaml
    widgets,        \* the widget state the session holds
    script,         \* the script's variables when the last execution ended:
                    \* summary_text, selected_pages, user_prompt, ..., with
                    \*   exc, at    the uncaught exception that ended it
                    \*   notices    the warning / error / success boxes
                    \*   shown      the widgets on the page
                    \*   status     IDLE, RENDERED or FAILED
                    \*   request    what it handed to the backend
    calls,          \* model.generate_content invocations of the session
    validated,      \* clicks on Run Agent that found input and instruction
    last_action     \* the interaction that triggered the execution

vars ==
    <<env_key, agents_yaml, widgets, script, calls, validated, last_action>>

\* The execution of the script that follows an interaction, with w the
\* widget state the interaction produced.
Execute(w, clicked, outcome, action) ==
    /\ script' = Script(env_key, agents_yaml, w, clicked, outcome)
    /\ widgets' = WidgetsAfter(w, script')
    /\ calls' = calls + script'.invocations
    /\ validated' = validated +
          (IF clicked /\ script'.summary_text # <<>> /\ script'.user_prompt # <<>>
           THEN 1 ELSE 0)
    /\ last_action' = action
    /\ UNCHANGED <<env_key, agents_yaml>>

\* A session opens with the first execution of the script.
Opened ==
    /\ script = Script(env_key, agents_yaml, InitialWidgets, FALSE, "ok")
    /\ widgets = WidgetsAfter(InitialWidgets, script)
    /\ calls = 0
    /\ validated = 0
    /\ last_action = "open"

Init ==
    /\ env_key \in BOOLEAN
    /\ agents_yaml \in ConfigSources
    /\ Opened

\* ------------------------------------------------------------- interactions
Shown(key) ==
    key \in script.shown

EnterApiKey ==
    /\ Shown(<<"api_key", "">>)
    /\ Execute([widgets EXCEPT !.api_key_input = ~@], FALSE, "ok", "input")

ChooseInputMethod ==
    /\ Shown(<<"radio", "">>)
    /\ Execute([widgets EXCEPT !.input_method =
                   IF @ = "Upload Files" THEN "Paste Text/Markdown"
                   ELSE "Upload Files"], FALSE, "ok", "input")

UploadFile(d) ==
    /\ Shown(<<"uploader", "">>)
    /\ Len(widgets.uploaded_files) < MaxFiles
    /\ \A i \in 1..Len(widgets.uploaded_files) : widgets.uploaded_files[i] # d
    /\ Execute([widgets EXCEPT !.uploaded_files = Append(@, d)],
               FALSE, "ok", "input")

RemoveFile(i) ==
    /\ Shown(<<"uploader", "">>)
    /\ i \in 1..Len(widgets.uploaded_files)
    /\ Execute([widgets EXCEPT !.uploaded_files =
                   SubSeq(@, 1, i - 1) \o SubSeq(@, i + 1, Len(@))],
               FALSE, "ok", "input")

TogglePageSelection(d) ==
    /\ Shown(SelectKey(d))
    /\ Execute([widgets EXCEPT !.use_page_selection[d] = ~@],
               FALSE, "ok", "input")

EnterPages(d, e) ==
    /\ Shown(PagesKey(d))
    /\ e # widgets.page_range[d]
    /\ Execute([widgets EXCEPT !.page_range[d] = e], FALSE, "ok", "input")

PasteText ==
    /\ Shown(<<"text_area", "">>)
    /\ Execute([widgets EXCEPT !.pasted_text = ~@], FALSE, "ok", "input")

ChooseAgent(a) ==
    /\ Shown(<<"selectbox", "">>)
    /\ a # widgets.agent.val
    /\ Execute([widgets EXCEPT !.agent.val = a], FALSE, "ok", "input")

\* The slider and the number field only hand over values inside
\* [min_value, max_value].
SetTemperature(v) ==
    /\ Shown(<<"slider", "">>)
    /\ v # widgets.temperature.val
    /\ WidgetAccepts(TempMin, TempMax, v)
    /\ Execute([widgets EXCEPT !.temperature.val = v], FALSE, "ok", "input")

SetMaxTokens(v) ==
    /\ Shown(<<"number_input", "">>)
    /\ v # widgets.max_tokens.val
    /\ WidgetAccepts(TokensMin, TokensMax, v)
    /\ Execute([widgets EXCEPT !.max_tokens.val = v], FALSE, "ok", "input")

EditPrompt(p) ==
    /\ Shown(<<"prompt", "">>)
    /\ p # widgets.prompt.val
    /\ Execute([widgets EXCEPT !.prompt.val = p], FALSE, "ok", "input")

ClickRun(outcome) ==
    /\ Shown(<<"run", "">>)
    /\ calls < MaxCalls
    /\ Execute(widgets, TRUE, outcome, "run")

\* A download button is a button: the click serves the blob the page
\* holds and triggers an execution in which Run Agent reads False.
ClickDownload(which) ==
    /\ Shown(<<"download", which>>)
    /\ Execute(widgets, FALSE, "ok", which)

Next ==
    \/ EnterApiKey
    \/ ChooseInputMethod
    \/ \E d \in Docs : UploadFile(d)
    \/ \E i \in 1..MaxFiles : RemoveFile(i)
    \/ \E d \in Docs : TogglePageSelection(d)
    \/ \E d \in Docs, e \in SessionExprs : EnterPages(d, e)
    \/ PasteText
    \/ \E a \in AgentNames(load_agents_config(agents_yaml)) : ChooseAgent(a)
    \/ \E v \in TemperatureChoices : SetTemperature(v)
    \/ \E v \in MaxTokensChoices : SetMaxTokens(v)
    \/ \E p \in PromptChoices : EditPrompt(p)
    \/ \E o \in Outcomes : ClickRun(o)
    \/ \E k \in {"download_report", "download_full"} : ClickDownload(k)

\* The sessions of one operator.
Spec ==
    Init /\ [][Next]_vars

\* The sessions that only work on the upload, with the key in the
\* environment and the built-in agents, over every page expression.
InitUpload ==
    /\ env_key = TRUE
    /\ agents_yaml = "absent"
    /\ Opened

NextUpload ==
    \/ \E d \in Docs : UploadFile(d)
    \/ \E i \in 1..MaxFiles : RemoveFile(i)
    \/ \E d \in Docs : TogglePageSelection(d)
    \/ \E d \in Docs, e \in PageExprs : EnterPages(d, e)

SpecUpload ==
    InitUpload /\ [][NextUpload]_vars

\* ------------------------------------------------------------ properties
ToSet(seq) ==
    {seq[i] : i \in 1..Len(seq)}

Count(seq, x) ==
    Cardinality({i \in 1..Len(seq) : seq[i] = x})

Max(a, b) ==
    IF a > b THEN a ELSE b

IsNumber(t) ==
    t # <<>> /\ \A i \in 1..Len(t) : IsDigit(t[i])

IsRange(t) ==
    \E k \in 1..Len(t) :
        /\ t[k] = "-"
        /\ IsNumber(SubSeq(t, 1, k - 1))
        /\ IsNumber(SubSeq(t, k + 1, Len(t)))

\* The grammar of the page expression: a comma-separated list of page
\* numbers, closed ranges A-B and the literal all.
InGrammar(e) ==
    \A i \in 1..Len(Split(e, ",")) :
        LET t == Split(e, ",")[i]
        IN  t = AllLiteral \/ IsNumber(t) \/ IsRange(t)

\* The zero-based indices one token stands for among n pages.
TokenPages(t, n) ==
    IF t = AllLiteral THEN 0..(n - 1)
    ELSE IF IsNumber(t)
    THEN {p - 1 : p \in {q \in {DigitsVal(t)} : 1 <= q /\ q <= n}}
    ELSE LET k == CHOOSE j \in 1..Len(t) : t[j] = "-"
             A == DigitsVal(SubSeq(t, 1, k - 1))
             B == DigitsVal(SubSeq(t, k + 1, Len(t)))
         IN  {p - 1 : p \in Max(A, 1)..Min(B, n)}

ReferencePages(e, n) ==
    UNION {TokenPages(Split(e, ",")[i], n) : i \in 1..Len(Split(e, ","))}

\* What the input section hands to the agent section: nothing when an
\* exception ended the script inside it.
AggregatedSubmission ==
    IF script.at \in {"document", "page_selection"} THEN <<>>
    ELSE script.summary_text

InDomain(t, m) ==
    /\ TempMin <= t /\ t <= TempMax
    /\ TokensMin <= m /\ m <= TokensMax

RunDrawn ==
    <<"run", "">> \in script.shown

\* C1: an execution that finds summary_text empty never invokes the
\* generation backend and shows the operator a notice that no input is
\* available.
C1_EmptyInputBlockedAndReported ==
    (script.exc = "none" /\ script.summary_text = <<>>) =>
        /\ script.invocations = 0
        /\ <<"warning", "NoInputAvailable">> \in script.notices

\* C2: without a credential (no GEMINI_API_KEY in the environment, none
\* entered) an execution never reaches the backend call.
C2_NoCredentialNoCall ==
    ~script.GEMINI_API_KEY => script.invocations = 0

\* C3: every interaction changes the number of backend invocations by
\* exactly one when it is a click on Run Agent that finds a non-empty
\* submission and a non-empty instruction, and by nothing otherwise: a
\* failed call is not repeated and neither download calls the backend.
C3_OneInvocationPerRun ==
    [][/\ validated' - validated \in {0, 1}
       /\ calls' - calls = validated' - validated
       /\ last_action' # "run" => calls' = calls]_vars

\* Both a failed and a successful call are behind, and the full report was
\* downloaded after the last one.
C3_Witness ==
    /\ last_action = "download_full"
    /\ calls = 2
    /\ validated = 2

\* C4: the pages selected and extracted from a PDF are indices in [0, n),
\* strictly ascending, and each page is written into the buffer once.
C4_SelectionAscendingInRange ==
    \A d \in Docs :
        (<<"select", d>> \in script.shown /\ script.at # "page_selection") =>
            /\ \A i \in 1..Len(script.selected_pages) :
                  0 <= script.selected_pages[i]
                      /\ script.selected_pages[i] < TotalPages(d)
            /\ \A i, j \in 1..Len(script.selected_pages) :
                  i < j => script.selected_pages[i] < script.selected_pages[j]
            /\ \A i \in 0..(TotalPages(d) - 1) :
                  Count(script.summary_text, PageText(d, i)) <= 1

\* C5: for an expression of the grammar the selected indices are the
\* reference set of the expression.
C5_SelectionEqualsReference ==
    \A d \in Docs :
        (<<"pages", d>> \in script.shown /\ InGrammar(widgets.page_range[d])) =>
            /\ script.at # "page_selection"
            /\ ToSet(script.selected_pages) =
                  ReferencePages(widgets.page_range[d], TotalPages(d))

\* C6: no page expression makes an exception leave the page selection.
C6_PageSelectionNeverRaises ==
    script.at # "page_selection"

\* C7: whatever document of the batch fails, the text of every other
\* document of the batch is in the aggregated submission and the failure
\* is reported for the failing document.
C7_DocumentFailureIsolated ==
    (script.at \notin {"config", "page_selection"}) =>
        \A i \in 1..Len(widgets.uploaded_files) :
            LET d == widgets.uploaded_files[i]
            IN  /\ Decodes(d) => FileText(d) \in ToSet(AggregatedSubmission)
                /\ (PdfOpens(d) /\ ~widgets.use_page_selection[d]) =>
                      PageText(d, 0) \in ToSet(AggregatedSubmission)
                /\ (~Decodes(d) /\ ~PdfOpens(d)) =>
                      <<"error", d>> \in script.notices

\* C8: a run that ends in a backend failure leaves summary_text, the
\* instruction and every other widget value as they were, ends the
\* execution without an uncaught exception and leaves the run button on
\* the page.
C8_FailureKeepsInput ==
    [][(last_action' = "run" /\ script'.status = "FAILED") =>
          /\ script'.exc = "none"
          /\ script'.summary_text = script.summary_text
          /\ script'.user_prompt = script.user_prompt
          /\ widgets' = widgets
          /\ <<"run", "">> \in script'.shown]_vars

\* A second run failed right after a first one, with the edited instruction.
C8_Witness ==
    /\ last_action = "run"
    /\ script.status = "FAILED"
    /\ script.user_prompt = <<"edited">>
    /\ script.summary_text # <<>>
    /\ calls = 2

\* C9: an out-of-domain temperature or max_tokens never stops the script,
\* and the values handed to the backend are inside their domains.
C9_ParametersClampedNotRejected ==
    /\ script.at # "agent_params"
    /\ RunDrawn => InDomain(script.temperature, script.max_tokens)
    /\ script.status # "IDLE" =>
          InDomain(script.request.temperature, script.request.max_output_tokens)

\* C10: whatever agents.yaml holds, no exception leaves the loading of the
\* agents or the agent selection, and a configuration without a mapping of
\* mappings ends in the built-in default agent.
C10_ConfigNeverCrashes ==
    /\ script.at \notin {"config", "agent_select"}
    /\ (RunDrawn /\ agents_yaml \notin {"absent", "hot", "short", "bare"}) =>
          script.selected_agent = DefaultAgent.name

====
